---- MODULE Spec2Model ----
(***************************************************************************)
(* AutoTimeSeries (auto_ts/__init__.py): the orchestration of one or more  *)
(* fit calls over the six model families, the registry ml_dict they fill,  *)
(* and the accessors that read it.                                         *)
(*                                                                         *)
(* Python values: None is the empty tuple and a present value x is <<x>>.  *)
(* A Python str on which the code computes (strip, lower, in, ==) is the   *)
(* sequence of its characters.                                             *)
(***************************************************************************)
EXTENDS Integers, Sequences, FiniteSets, TLC

None == << >>
Some(x) == <<x>>

(***************************************************************************)
(* Bounds of the model.                                                    *)
(***************************************************************************)
\* finite scores an adapter reports are 1..MaxScore
MaxScore == 2
\* forecast_period is drawn from 1..MaxHorizon
MaxHorizon == 2
\* the days of the first index gap (timedelta.days) are drawn from
\* -MaxBackDays..MaxGapDays
MaxGapDays == 362
MaxBackDays == 8
\* the input table has 0..MaxPreds exogenous columns
MaxPreds == 1
\* a caller that fits repeatedly makes MaxFits fit calls on one orchestrator
MaxFits == 2
\* a table whose rows are spelled out has 1..MaxRows rows
MaxRows == 3

(***************************************************************************)
(* str methods                                                             *)
(***************************************************************************)
UPPERCASE == <<"A", "B", "C", "D", "E", "F", "G", "H", "I", "J", "K", "L", "M",
               "N", "O", "P", "Q", "R", "S", "T", "U", "V", "W", "X", "Y", "Z">>
LOWERCASE == <<"a", "b", "c", "d", "e", "f", "g", "h", "i", "j", "k", "l", "m",
               "n", "o", "p", "q", "r", "s", "t", "u", "v", "w", "x", "y", "z">>
WHITESPACE == {" ", "\t", "\n"}

\* the lower-case letter of each upper-case one
LowerOf ==
    [c \in {UPPERCASE[i] : i \in 1..26} |-> LOWERCASE[CHOOSE i \in 1..26 : UPPERCASE[i] = c]]

lower_char(c) == IF c \in DOMAIN LowerOf THEN LowerOf[c] ELSE c

\* str.lower()
lower(s) == [i \in 1..Len(s) |-> lower_char(s[i])]

RECURSIVE lstrip(_)
lstrip(s) == IF s # << >> /\ Head(s) \in WHITESPACE THEN lstrip(Tail(s)) ELSE s

RECURSIVE rstrip(_)
rstrip(s) ==
    IF s # << >> /\ s[Len(s)] \in WHITESPACE
    THEN rstrip(SubSeq(s, 1, Len(s) - 1))
    ELSE s

\* str.strip()
strip(s) == lstrip(rstrip(s))

\* a in b, for two str
str_in(a, b) == \E i \in 0..(Len(b) - Len(a)) : SubSeq(b, i + 1, i + Len(a)) = a

\* x in l, for a list l
list_in(x, l) == \E i \in 1..Len(l) : l[i] = x

(***************************************************************************)
(* str literals of the source                                              *)
(***************************************************************************)
S_months == <<"m", "o", "n", "t", "h", "s">>
S_days == <<"d", "a", "y", "s">>
S_weeks == <<"w", "e", "e", "k", "s">>
S_qtr == <<"q", "t", "r">>
S_years == <<"y", "e", "a", "r", "s">>
S_hours == <<"h", "o", "u", "r", "s">>
S_minutes == <<"m", "i", "n", "u", "t", "e", "s">>
S_seconds == <<"s", "e", "c", "o", "n", "d", "s">>

SYN_months == <<S_months, <<"m", "o", "n", "t", "h">>, <<"m">> >>
SYN_days == <<S_days, <<"d", "a", "i", "l", "y">>, <<"d">> >>
SYN_weeks == <<S_weeks, <<"w", "e", "e", "k", "l", "y">>, <<"w">> >>
SYN_qtr == <<S_qtr, <<"q", "u", "a", "r", "t", "e", "r">>, <<"q">> >>
SYN_years == <<S_years, <<"y", "e", "a", "r">>, <<"a", "n", "n", "u", "a", "l">>,
               <<"y">>, <<"a">> >>
SYN_hours == <<S_hours, <<"h", "o", "u", "r", "l", "y">>, <<"h">> >>
SYN_minutes == <<S_minutes, <<"m", "i", "n", "u", "t", "e">>, <<"m", "i", "n">>,
                 <<"n">> >>
SYN_seconds == <<S_seconds, <<"s", "e", "c", "o", "n", "d">>, <<"s", "e", "c">>,
                 <<"s">> >>

S_best == <<"b", "e", "s", "t">>
S_prophet == <<"p", "r", "o", "p", "h", "e", "t">>
S_pyflux == <<"p", "y", "f", "l", "u", "x">>
S_stats == <<"s", "t", "a", "t", "s">>
S_ARIMA == <<"A", "R", "I", "M", "A">>
S_SARIMAX == <<"S", "A", "R", "I", "M", "A", "X">>
S_VAR == <<"V", "A", "R">>
S_ML == <<"M", "L">>
S_ml == <<"m", "l">>
S_FB_Prophet == <<"F", "B", "_", "P", "r", "o", "p", "h", "e", "t">>
S_PyFlux == <<"P", "y", "F", "l", "u", "x">>

allowed_models == <<S_best, S_prophet, S_pyflux, S_stats, S_ARIMA, S_SARIMAX, S_VAR, S_ML>>

(***************************************************************************)
(* Interval normalisation and seasonal period imputation                   *)
(***************************************************************************)
\* a variant whose minute branch stores the abbreviation 'm', which the chain reads
\* as monthly the next time
normalize_time_interval_abbrev(time_interval) ==
    LET ti == lower(strip(time_interval)) IN
    IF list_in(ti, SYN_months) THEN S_months
    ELSE IF list_in(ti, SYN_days) THEN S_days
    ELSE IF list_in(ti, SYN_weeks) THEN S_weeks
    ELSE IF list_in(ti, SYN_qtr) THEN S_qtr
    ELSE IF list_in(ti, SYN_years) THEN S_years
    ELSE IF list_in(ti, SYN_hours) THEN S_hours
    ELSE IF list_in(ti, SYN_minutes) THEN <<"m">>
    ELSE IF list_in(ti, SYN_seconds) THEN S_seconds
    ELSE S_months

\* a variant that strips but does not lower
normalize_time_interval_cased(time_interval) ==
    LET ti == strip(time_interval) IN
    IF list_in(ti, SYN_months) THEN S_months
    ELSE IF list_in(ti, SYN_days) THEN S_days
    ELSE IF list_in(ti, SYN_weeks) THEN S_weeks
    ELSE IF list_in(ti, SYN_qtr) THEN S_qtr
    ELSE IF list_in(ti, SYN_years) THEN S_years
    ELSE IF list_in(ti, SYN_hours) THEN S_hours
    ELSE IF list_in(ti, SYN_minutes) THEN S_minutes
    ELSE IF list_in(ti, SYN_seconds) THEN S_seconds
    ELSE S_months

\* self.time_interval = self.time_interval.strip().lower() and the synonym chain
normalize_time_interval(time_interval) ==
    LET ti == lower(strip(time_interval)) IN
    IF list_in(ti, SYN_months) THEN S_months
    ELSE IF list_in(ti, SYN_days) THEN S_days
    ELSE IF list_in(ti, SYN_weeks) THEN S_weeks
    ELSE IF list_in(ti, SYN_qtr) THEN S_qtr
    ELSE IF list_in(ti, SYN_years) THEN S_years
    ELSE IF list_in(ti, SYN_hours) THEN S_hours
    ELSE IF list_in(ti, SYN_minutes) THEN S_minutes
    ELSE IF list_in(ti, SYN_seconds) THEN S_seconds
    ELSE S_months

\* a variant whose weekly branch tests 'week' in time_interval, never true of 'weeks'
impute_seasonal_period_swapped(seasonal_period, time_interval) ==
    IF seasonal_period = None
    THEN IF time_interval = S_months THEN Some(12)
         ELSE IF time_interval = S_days THEN Some(30)
         ELSE IF str_in(time_interval, <<"w", "e", "e", "k">>) THEN Some(52)
         ELSE IF str_in(time_interval, S_qtr) THEN Some(4)
         ELSE IF str_in(time_interval, S_years) THEN Some(1)
         ELSE IF str_in(time_interval, S_hours) THEN Some(24)
         ELSE IF str_in(time_interval, S_minutes) THEN Some(60)
         ELSE IF str_in(time_interval, S_seconds) THEN Some(60)
         ELSE Some(12)
    ELSE seasonal_period

\* if self.seasonal_period is None: ... ; seasonal_period is None or Some(int)
impute_seasonal_period(seasonal_period, time_interval) ==
    IF seasonal_period = None
    THEN IF time_interval = S_months THEN Some(12)
         ELSE IF time_interval = S_days THEN Some(30)
         ELSE IF str_in(time_interval, S_weeks) THEN Some(52)
         ELSE IF str_in(time_interval, S_qtr) THEN Some(4)
         ELSE IF str_in(time_interval, S_years) THEN Some(1)
         ELSE IF str_in(time_interval, S_hours) THEN Some(24)
         ELSE IF str_in(time_interval, S_minutes) THEN Some(60)
         ELSE IF str_in(time_interval, S_seconds) THEN Some(60)
         ELSE Some(12)
    ELSE seasonal_period

(***************************************************************************)
(* __any_contained_in_list, __all_contained_in_list                        *)
(***************************************************************************)
lower_list(l) == [i \in 1..Len(l) |-> lower(l[i])]

\* a variant that compares without lowering either list
any_contained_in_list_cased(what_list, in_list) ==
    \E i \in 1..Len(what_list) : list_in(what_list[i], in_list)

any_contained_in_list(what_list, in_list) ==
    \E i \in 1..Len(what_list) : list_in(lower(what_list[i]), lower_list(in_list))

all_contained_in_list(what_list, in_list) ==
    \A i \in 1..Len(what_list) : list_in(lower(what_list[i]), lower_list(in_list))

(***************************************************************************)
(* The registry self.ml_dict: a dict, kept as the sequence of its entries  *)
(* in insertion order.  An entry holds the four keys fit writes.           *)
(***************************************************************************)
\* np.inf: above every finite score
Inf == MaxScore + 1
Scores == 1..MaxScore

Entry(name, model, forecasts, score_val, model_build) ==
    [name |-> name, model |-> model, forecast |-> forecasts,
     score |-> score_val, model_build |-> model_build]

dict_keys(d) == [i \in 1..Len(d) |-> d[i].name]

\* d.get(name): None or Some(entry)
dict_get(d, name) ==
    IF \E i \in 1..Len(d) : d[i].name = name
    THEN Some(d[CHOOSE i \in 1..Len(d) : d[i].name = name])
    ELSE None

\* self.ml_dict[name][...] = ... for the four keys of one family
dict_set(d, e) ==
    IF \E i \in 1..Len(d) : d[i].name = e.name
    THEN [i \in 1..Len(d) |-> IF d[i].name = e.name THEN e ELSE d[i]]
    ELSE Append(d, e)

\* a variant of the scan that keeps the last smallest item
RECURSIVE py_min_last(_, _, _)
py_min_last(items, i, best) ==
    IF i > Len(items) THEN best
    ELSE py_min_last(items, i + 1, IF items[i].score <= items[best].score THEN i ELSE best)

\* min(items, key=itemgetter(1)): the scan keeps the first smallest item
RECURSIVE py_min(_, _, _)
py_min(items, i, best) ==
    IF i > Len(items) THEN best
    ELSE py_min(items, i + 1, IF items[i].score < items[best].score THEN i ELSE best)

\* a variant that scans the families in the attempt order, whatever the order
\* of the registry
best_model_name_of_ranked(d) ==
    LET order == <<"FB_Prophet", "PyFlux", "ARIMA", "SARIMAX", "VAR", "ML">>
        at(name) == CHOOSE i \in 1..Len(d) : d[i].name = name
        ranked == SelectSeq(order, LAMBDA name : \E i \in 1..Len(d) : d[i].name = name)
    IN  d[py_min([i \in 1..Len(ranked) |-> d[at(ranked[i])]], 1, 1)].name

\* get_best_model_name on a non-empty registry (min raises ValueError on an empty one)
best_model_name_of(d) == d[py_min(d, 1, 1)].name

(***************************************************************************)
(* What the collaborators can do (models/ and utils/ are outside the       *)
(* orchestrator): an adapter's fit returns a fitted handle with a forecast *)
(* and two finite errors, or the failure tuple (None, None, inf, inf).     *)
(***************************************************************************)
Forecast(h) == [i \in 1..h |-> 0]

FitReturns(h) ==
    { [model |-> Some("model"), forecasts |-> Some(Forecast(h)), rmse |-> r, norm_rmse |-> n] :
        r \in Scores, n \in Scores }
    \cup { [model |-> None, forecasts |-> None, rmse |-> Inf, norm_rmse |-> Inf] }

\* what build_pyflux_model hands back for model and forecasts when the backend is missing
PyFluxMissing == {None, Some("error")}

Call(adapter, method, arg) == [adapter |-> adapter, method |-> method, arg |-> arg]

(***************************************************************************)
(* State                                                                   *)
(***************************************************************************)
VARIABLES
    score_type,       \* self.score_type
    forecast_period,  \* self.forecast_period
    time_interval,    \* self.time_interval: None or Some(str)
    seasonal_period,  \* self.seasonal_period: None or Some(int)
    model_type,       \* self.model_type: list of str
    ml_dict,          \* self.ml_dict
    pc,               \* "idle", or the place the running fit call has reached
    frame,            \* the locals of the running fit call
    calls,            \* the adapter constructions and fits of the last fit call
    ret,              \* how the last call ended
    fits_left,        \* fit calls still to be made
    past,             \* for a caller that fits repeatedly: its fit calls so far,
                      \* each with its input and the state it began in
    memo,             \* for a caller that fits repeatedly: what each adapter did
                      \* on each argument list it was given
    kwargs            \* the keyword arguments __init__ was called with:
                      \* seasonal_period is None when left out, Some(value) when passed

vars == <<score_type, forecast_period, time_interval, seasonal_period, model_type,
          ml_dict, pc, frame, calls, ret, fits_left, past, memo, kwargs>>

NoFrame == [gap |-> None, preds |-> 0, lag |-> 0, inferred |-> FALSE, best_model_name |-> None,
            ts_df |-> None]

Return(op, val) == [op |-> op, args |-> << >>, kind |-> "return", val |-> val, invoked |-> << >>]
\* the call has not ended yet
Running(op) == [op |-> op, args |-> << >>, kind |-> "running", val |-> "None", invoked |-> << >>]
Raise(op, exc) == [op |-> op, args |-> << >>, kind |-> "raise", val |-> exc, invoked |-> << >>]

\* fit leaves by return or by an exception: its locals are gone
Leave(r) ==
    /\ pc' = "idle"
    /\ frame' = NoFrame
    /\ ret' = r

(***************************************************************************)
(* fit: loading (lines 185-252)                                            *)
(***************************************************************************)
TrainDataKinds == {"path", "empty_str", "DataFrame", "other"}
TsColumnKinds == {"str", "int", "list"}
\* load_ts_data returns a table, returns its error marker (a str), or raises
LoadOutcomes == {"table", "error_marker", "raises"}

abs(x) == IF x < 0 THEN -x ELSE x

\* seconds parts of the first index gap (timedelta.seconds is in 0..86399)
GapSeconds == {0, 60, 3600, 7200}
Gaps == {<<d, s>> : d \in (-MaxBackDays)..MaxGapDays, s \in GapSeconds}

\* the first index gap of the loaded table; fit reads it only when
\* self.time_interval is None, and it is left out (None) otherwise
TableGaps == IF time_interval = None THEN {Some(g) : g \in Gaps} ELSE {None}

\* the arguments of one fit call and what the loader does with them
Input(traindata, ts_column, loaded, gap, preds) ==
    [traindata |-> traindata, ts_column |-> ts_column, loaded |-> loaded,
     gap |-> gap, preds |-> preds, rows |-> None]

FitInputs ==
    {Input(traindata, ts_column, loaded, gap, preds) :
        traindata \in TrainDataKinds, ts_column \in TsColumnKinds, loaded \in LoadOutcomes,
        gap \in TableGaps, preds \in 0..MaxPreds}

\* fit left while loading: the call is kept with the arguments it was given
LeaveLoad(r, inp) == Leave([r EXCEPT !.args = <<inp.traindata, inp.ts_column, inp.loaded>>])

\* the call is added to the history of a caller that fits repeatedly
Begin(inp) ==
    past' = IF fits_left > 1 \/ past # << >>
            THEN Append(past, [input |-> inp, ml_dict |-> ml_dict,
                               time_interval |-> time_interval,
                               seasonal_period |-> seasonal_period, stored |-> {}])
            ELSE past

Load(Inputs) ==
    /\ pc = "idle"
    /\ fits_left > 0
    /\ fits_left' = fits_left - 1
    /\ calls' = << >>
    /\ \E inp \in Inputs :
          /\ Begin(inp)
          /\ IF inp.ts_column = "int"
             THEN \* list(ts_df)[ts_column]: ts_df is not assigned yet
                  LeaveLoad(Raise("fit", "UnboundLocalError"), inp)
             ELSE IF inp.traindata = "other"
             THEN LeaveLoad(Return("fit", "None"), inp)
             ELSE IF inp.traindata = "empty_str"
             THEN \* nothing is loaded; copy.deepcopy(ts_df) on line 246
                  LeaveLoad(Raise("fit", "UnboundLocalError"), inp)
             ELSE IF inp.loaded = "error_marker"
             THEN LeaveLoad(Return("fit", "None"), inp)
             ELSE IF inp.loaded = "raises"
             THEN IF inp.traindata = "path"
                  THEN LeaveLoad(Return("fit", "None"), inp)
                  ELSE LeaveLoad(Raise("fit", "LoaderError"), inp)
             ELSE /\ pc' = "infer"
                  /\ frame' = [NoFrame EXCEPT !.gap = inp.gap, !.preds = inp.preds,
                                              !.lag = forecast_period - 1,
                                              !.ts_df = inp.rows]
                  /\ ret' = Running("fit")
    /\ UNCHANGED <<kwargs, score_type, forecast_period, time_interval, seasonal_period,
                   model_type, ml_dict, memo>>

Fit_Load == Load(FitInputs)

(***************************************************************************)
(* fit: frequency inference (lines 272-318)                                *)
(***************************************************************************)
\* a variant whose monthly band ends at 89 days inclusive
classify_days_inclusive(diff_in_days) ==
    IF diff_in_days = 7 THEN Some(S_weeks)
    ELSE IF diff_in_days = 1 THEN Some(S_days)
    ELSE IF 28 <= diff_in_days /\ diff_in_days <= 89 THEN Some(S_months)
    ELSE IF 89 <= diff_in_days /\ diff_in_days < 178 THEN Some(S_qtr)
    ELSE IF 178 <= diff_in_days /\ diff_in_days < 360 THEN Some(S_qtr)
    ELSE IF diff_in_days >= 360 THEN Some(S_years)
    ELSE None

\* the chain of lines 285-305 on diff_in_days >= 1: Some(interval), or None for return None
classify_days(diff_in_days) ==
    IF diff_in_days = 7 THEN Some(S_weeks)
    ELSE IF diff_in_days = 1 THEN Some(S_days)
    ELSE IF 28 <= diff_in_days /\ diff_in_days < 89 THEN Some(S_months)
    ELSE IF 89 <= diff_in_days /\ diff_in_days < 178 THEN Some(S_qtr)
    ELSE IF 178 <= diff_in_days /\ diff_in_days < 360 THEN Some(S_qtr)
    ELSE IF diff_in_days >= 360 THEN Some(S_years)
    ELSE None

\* lines 275-316 for diff.days and diff.seconds: how the block ends and the
\* interval it sets.  diff_in_hours is kept in seconds (diff_in_hours * 3600);
\* diff_in_days is None when no assignment to it was executed.
infer_frequency(diffdays, diffsecs) ==
    LET diff_in_hours == IF diffsecs = 0 THEN 0 ELSE abs(diffdays * 24 * 3600 + diffsecs)
        diff_in_days == IF diffsecs = 0 THEN Some(abs(diffdays)) ELSE None
        day_block == diff_in_hours = 0 /\ diff_in_days[1] >= 1
        by_days == IF day_block THEN classify_days(diff_in_days[1]) ELSE None
    IN  IF day_block /\ by_days = None
        THEN [end |-> "return_none", time_interval |-> None]
        ELSE IF diff_in_days = None
        THEN [end |-> "UnboundLocalError", time_interval |-> by_days]
        ELSE IF diff_in_days[1] = 0
        THEN IF diff_in_hours = 0
             THEN [end |-> "ok", time_interval |-> Some(S_minutes)]
             ELSE IF diff_in_hours >= 3600
             THEN [end |-> "ok", time_interval |-> Some(S_hours)]
             ELSE [end |-> "return_none", time_interval |-> by_days]
        ELSE [end |-> "ok", time_interval |-> by_days]

Fit_InferFrequency ==
    /\ pc = "infer"
    /\ IF time_interval = None
       THEN LET r == infer_frequency(frame.gap[1][1], frame.gap[1][2]) IN
            /\ time_interval' = r.time_interval
            /\ IF r.end = "ok"
               THEN /\ pc' = "normalize"
                    /\ frame' = [frame EXCEPT !.inferred = TRUE]
                    /\ ret' = ret
               ELSE IF r.end = "return_none"
               THEN Leave(Return("fit", "None"))
               ELSE Leave(Raise("fit", r.end))
       ELSE /\ pc' = "normalize"
            /\ UNCHANGED <<time_interval, frame, ret>>
    /\ UNCHANGED <<kwargs, score_type, forecast_period, seasonal_period, model_type,
                   ml_dict, calls, fits_left, past, memo>>

(***************************************************************************)
(* fit: normalisation, seasonal period, registry reset (lines 321-371)     *)
(***************************************************************************)
Fit_Normalize ==
    /\ pc = "normalize"
    /\ LET ti == normalize_time_interval(time_interval[1]) IN
       /\ time_interval' = Some(ti)
       /\ seasonal_period' = impute_seasonal_period(seasonal_period, ti)
    /\ ml_dict' = << >>
    /\ pc' = "prophet"
    /\ UNCHANGED <<kwargs, score_type, forecast_period, model_type, frame, calls, ret, fits_left,
                   past, memo>>

(***************************************************************************)
(* fit: the six attempts (lines 380-658)                                   *)
(***************************************************************************)
\* if self.score_type == 'rmse': score_val = rmse else: score_val = norm_rmse
score_of(res) == IF score_type = "rmse" THEN res.rmse ELSE res.norm_rmse

\* the placeholders set before each try
Placeholder == [model |-> None, forecasts |-> None, score_val |-> Inf,
                model_build |-> None, calls |-> << >>]

\* try: model_build = Build...(init_arg); model, forecasts, rmse, norm_rmse =
\*      model_build.fit(fit_arg); score_val = ...   except Exception: (print)
\* The result is the four locals after the try, and the calls made in it.
try_build(cls, init_arg, fit_arg, init_raises, fit_raises, res) ==
    IF init_raises
    THEN [Placeholder EXCEPT !.calls = <<Call(cls, "__init__", init_arg)>>]
    ELSE IF fit_raises
    THEN [Placeholder EXCEPT !.model_build = Some(cls),
                             !.calls = <<Call(cls, "__init__", init_arg),
                                         Call(cls, "fit", fit_arg)>>]
    ELSE [model |-> res.model, forecasts |-> res.forecasts, score_val |-> score_of(res),
          model_build |-> Some(cls),
          calls |-> <<Call(cls, "__init__", init_arg), Call(cls, "fit", fit_arg)>>]

\* the Prophet try: forecast_df['yhat'].values comes between fit and the score.
\* It raises on a forecast_df that is None, or that has no 'yhat' column
\* (post_raises); model is assigned by then.
try_prophet(init_raises, fit_raises, post_raises, res) ==
    LET t == try_build("BuildProphet", None, None, init_raises, fit_raises, res) IN
    IF ~init_raises /\ ~fit_raises /\ (post_raises \/ res.forecasts = None)
    THEN [t EXCEPT !.forecasts = None, !.score_val = Inf]
    ELSE t

\* the PyFlux try: a function call, no adapter object; a str rmse means no backend
try_pyflux(call_raises, missing, res, m, f) ==
    IF call_raises
    THEN [Placeholder EXCEPT !.calls = <<Call("build_pyflux_model", "call", None)>>]
    ELSE IF missing
    THEN [Placeholder EXCEPT !.model = m, !.forecasts = f,
                             !.calls = <<Call("build_pyflux_model", "call", None)>>]
    ELSE [model |-> res.model, forecasts |-> res.forecasts, score_val |-> score_of(res),
          model_build |-> None, calls |-> <<Call("build_pyflux_model", "call", None)>>]

(***************************************************************************)
(* The rows of the loaded table ts_df, where they are spelled out: row t   *)
(* is [y |-> target, x |-> the exogenous columns], NaN for a missing       *)
(* value.  Where they are left out, ts_df is None and so is what is made   *)
(* of it.                                                                  *)
(***************************************************************************)
NaN == -1

\* df.dropna(axis=0): the rows, under their index t, that have no missing value
dropna(rows) == SelectSeq(rows, LAMBDA r : r.y # NaN /\ r.x # NaN)

\* a variant that shifts the whole table, the target column included
shift_preds_all(ts_df) ==
    IF ts_df = None THEN None
    ELSE LET rows == ts_df[1] IN
         Some(dropna([t \in 1..Len(rows) |->
                        [t |-> t,
                         y |-> IF t = 1 THEN NaN ELSE rows[t - 1].y,
                         x |-> IF t = 1 THEN NaN ELSE rows[t - 1].x]]))

\* lines 573-575 and 579: ts_df_shifted = ts_df.copy(deep=True);
\* ts_df_shifted[preds] = ts_df_shifted[preds].shift(1); dropna
shift_preds(ts_df) ==
    IF ts_df = None THEN None
    ELSE LET rows == ts_df[1] IN
         Some(dropna([t \in 1..Len(rows) |->
                        [t |-> t,
                         y |-> rows[t].y,
                         x |-> IF t = 1 THEN NaN ELSE rows[t - 1].x]]))

\* self.ml_dict[name]['model'] = model ... ['model_build'] = model_build
Store(name, t) ==
    /\ ml_dict' = dict_set(ml_dict, Entry(name, t.model, t.forecasts, t.score_val, t.model_build))
    /\ calls' = calls \o t.calls
    /\ past' = IF past = << >> THEN past
               ELSE [past EXCEPT ![Len(past)].stored = @ \cup {name}]

\* what an adapter is given: the input of the call and the configuration
Args(adapter) ==
    [adapter |-> adapter, input |-> past[Len(past)].input, score_type |-> score_type,
     forecast_period |-> forecast_period, time_interval |-> time_interval,
     seasonal_period |-> seasonal_period]

\* adapters are functions of their arguments: the try of an attempt ends with the
\* locals t it ended with before on the same arguments, if it was given them before
Same(adapter, t) ==
    past # << >> => \A m \in memo : m.args = Args(adapter) => m.locals = t

Remember(adapter, t) ==
    memo' = IF past = << >> THEN memo
            ELSE memo \cup {[args |-> Args(adapter), locals |-> t]}

\* one attempt: the try ends with the locals t, which are stored under name
Attempt(adapter, name, t) ==
    /\ Same(adapter, t)
    /\ Store(name, t)
    /\ Remember(adapter, t)

\* the family is not selected: nothing is stored
Skip == UNCHANGED <<ml_dict, calls, past, memo>>

AttemptFrame(next) ==
    /\ pc' = next
    /\ UNCHANGED <<kwargs, score_type, forecast_period, time_interval, seasonal_period,
                   model_type, frame, ret, fits_left>>

Fit_Prophet ==
    /\ pc = "prophet"
    /\ IF any_contained_in_list(<<S_prophet, S_best>>, model_type)
       THEN \E init_raises, fit_raises, post_raises \in BOOLEAN,
               res \in FitReturns(forecast_period) :
                Attempt("BuildProphet", S_FB_Prophet,
                        try_prophet(init_raises, fit_raises, post_raises, res))
       ELSE Skip
    /\ AttemptFrame("pyflux")

Fit_PyFlux ==
    /\ pc = "pyflux"
    /\ IF any_contained_in_list(<<S_pyflux, S_stats, S_best>>, model_type)
       THEN \E call_raises, missing \in BOOLEAN, res \in FitReturns(forecast_period),
               e \in PyFluxMissing :
                Attempt("build_pyflux_model", S_PyFlux,
                        try_pyflux(call_raises, missing, res, e, e))
       ELSE Skip
    /\ AttemptFrame("arima")

\* a variant of the ARIMA attempt with no try/except around the adapter
Fit_ARIMA_unguarded ==
    /\ pc = "arima"
    /\ IF any_contained_in_list(<<S_ARIMA, S_stats, S_best>>, model_type)
       THEN \E init_raises, fit_raises \in BOOLEAN, res \in FitReturns(forecast_period) :
              IF init_raises \/ fit_raises
              THEN /\ Leave(Raise("fit", "Exception"))
                   /\ calls' = calls \o try_build("BuildArima", None, None,
                                                  init_raises, fit_raises, res).calls
                   /\ UNCHANGED <<kwargs, score_type, forecast_period, time_interval,
                                  seasonal_period, model_type, ml_dict, fits_left,
                                  past, memo>>
              ELSE /\ Attempt("BuildArima", S_ARIMA,
                              try_build("BuildArima", None, None,
                                        init_raises, fit_raises, res))
                   /\ AttemptFrame("sarimax")
       ELSE /\ Skip
            /\ AttemptFrame("sarimax")

Fit_ARIMA ==
    /\ pc = "arima"
    /\ IF any_contained_in_list(<<S_ARIMA, S_stats, S_best>>, model_type)
       THEN \E init_raises, fit_raises \in BOOLEAN, res \in FitReturns(forecast_period) :
                Attempt("BuildArima", S_ARIMA,
                        try_build("BuildArima", None, None, init_raises, fit_raises, res))
       ELSE Skip
    /\ AttemptFrame("sarimax")

Fit_SARIMAX ==
    /\ pc = "sarimax"
    /\ IF any_contained_in_list(<<S_SARIMAX, S_stats, S_best>>, model_type)
       THEN \E init_raises, fit_raises \in BOOLEAN, res \in FitReturns(forecast_period) :
                Attempt("BuildSarimax", S_SARIMAX,
                        try_build("BuildSarimax", seasonal_period, None,
                                  init_raises, fit_raises, res))
       ELSE Skip
    /\ AttemptFrame("var")

Fit_VAR ==
    /\ pc = "var"
    /\ IF any_contained_in_list(<<S_VAR, S_stats, S_best>>, model_type)
       THEN IF frame.preds = 0
            THEN Store(S_VAR, Placeholder) /\ memo' = memo
            ELSE \E init_raises, fit_raises \in BOOLEAN, res \in FitReturns(forecast_period) :
                     Attempt("BuildVAR", S_VAR,
                             try_build("BuildVAR", None, shift_preds(frame.ts_df),
                                       init_raises, fit_raises, res))
       ELSE Skip
    /\ AttemptFrame("ml")

Fit_ML ==
    /\ pc = "ml"
    /\ IF any_contained_in_list(<<S_ml, S_best>>, model_type)
       THEN IF frame.preds = 0
            THEN Store(S_ML, Placeholder) /\ memo' = memo
            ELSE \E init_raises, fit_raises \in BOOLEAN, res \in FitReturns(forecast_period) :
                     Attempt("BuildML", S_ML,
                             try_build("BuildML", None,
                                       Some([ts_df |-> frame.ts_df, lags |-> frame.lag]),
                                       init_raises, fit_raises, res))
       ELSE Skip
    /\ AttemptFrame("select")

(***************************************************************************)
(* fit: model_type validation and selection (lines 660-672)                *)
(***************************************************************************)
Fit_Select ==
    /\ pc = "select"
    /\ IF ~all_contained_in_list(model_type, allowed_models) /\ Len(dict_keys(ml_dict)) = 0
       THEN Leave(Return("fit", "None"))
       ELSE IF ml_dict = << >>
       THEN \* get_best_model_name: min() of an empty sequence
            Leave(Raise("fit", "ValueError"))
       ELSE /\ pc' = "report"
            /\ frame' = [frame EXCEPT !.best_model_name = Some(best_model_name_of(ml_dict))]
            /\ ret' = ret
    /\ UNCHANGED <<kwargs, score_type, forecast_period, time_interval, seasonal_period,
                   model_type, ml_dict, calls, fits_left, past, memo>>

\* a variant of the return that first deletes the entries of infinite score
Fit_Return_pruned ==
    /\ pc = "report"
    /\ Leave(Return("fit", "self"))
    /\ ml_dict' = SelectSeq(ml_dict, LAMBDA e : e.score < Inf)
    /\ UNCHANGED <<kwargs, score_type, forecast_period, time_interval, seasonal_period,
                   model_type, calls, fits_left, past, memo>>

\* lines 667-672: the best entry is printed and fit returns self
Fit_Return ==
    /\ pc = "report"
    /\ Leave(Return("fit", "self"))
    /\ UNCHANGED <<kwargs, score_type, forecast_period, time_interval, seasonal_period,
                   model_type, ml_dict, calls, fits_left, past, memo>>

(***************************************************************************)
(* Accessors (lines 676-751); none is called while fit runs                *)
(***************************************************************************)
Accessor(r) ==
    /\ pc = "idle"
    /\ ret' = r
    /\ UNCHANGED <<kwargs, score_type, forecast_period, time_interval, seasonal_period,
                   model_type, ml_dict, pc, frame, calls, fits_left, past, memo>>

\* the entry get_best_model_name names: self.ml_dict.get(self.get_best_model_name())
best_entry(d) == dict_get(d, best_model_name_of(d))[1]

get_best_model_name ==
    IF ml_dict = << >>
    THEN Raise("get_best_model_name", "ValueError")
    ELSE Return("get_best_model_name", best_model_name_of(ml_dict))

get_best_model ==
    IF ml_dict = << >>
    THEN Raise("get_best_model", "ValueError")
    ELSE Return("get_best_model", best_entry(ml_dict).model)

get_best_model_build ==
    IF ml_dict = << >>
    THEN Raise("get_best_model_build", "ValueError")
    ELSE Return("get_best_model_build", best_entry(ml_dict).model_build)

\* get_model_build(model_name): None for a missing name
get_model_build(model_name) ==
    IF dict_get(ml_dict, model_name) # None
    THEN dict_get(ml_dict, model_name)[1].model_build
    ELSE None

\* an adapter's predict gives one value per step of the horizon it is asked for,
\* its own forecast_period when none is given
adapter_predict(X_exogen, horizon, simple) ==
    Forecast(IF horizon = None THEN forecast_period ELSE horizon[1])

Invoke(op, build, X_exogen, horizon, simple) ==
    IF build = None
    THEN \* None.predict
         Raise(op, "AttributeError")
    ELSE [Return(op, Some(adapter_predict(X_exogen, horizon, simple)))
            EXCEPT !.invoked = <<[adapter |-> build[1], X_exogen |-> X_exogen,
                                  forecast_period |-> horizon, simple |-> simple]>>]

predict(model, X_exogen, horizon, simple) ==
    IF lower(model) = S_best
    THEN IF ml_dict = << >>
         THEN Raise("predict", "ValueError")
         ELSE Invoke("predict", best_entry(ml_dict).model_build, X_exogen, horizon, simple)
    ELSE IF get_model_build(model) # None
    THEN Invoke("predict", get_model_build(model), X_exogen, horizon, simple)
    ELSE Return("predict", None)

GetBestModelName == Accessor(get_best_model_name)
GetBestModel == Accessor(get_best_model)
GetBestModelBuild == Accessor(get_best_model_build)

\* str.upper(), to write inputs in another casing
UpperOf ==
    [c \in {LOWERCASE[i] : i \in 1..26} |-> UPPERCASE[CHOOSE i \in 1..26 : LOWERCASE[i] = c]]
upper_char(c) == IF c \in DOMAIN UpperOf THEN UpperOf[c] ELSE c
upper(s) == [i \in 1..Len(s) |-> upper_char(s[i])]

\* get_model(model_name): None for a missing name
get_model(model_name) ==
    IF dict_get(ml_dict, model_name) # None
    THEN dict_get(ml_dict, model_name)[1].model
    ELSE None

\* the names callers ask for: registry names, and names no fit ever stores
QueryNames == {S_ARIMA, S_PyFlux, S_ML, S_prophet, lower(S_ARIMA)}

\* a variant that subscripts the registry, self.ml_dict[model_name]: on the
\* defaultdict of line 365 a missing name gets an empty entry
GetModel_subscript ==
    \E model_name \in QueryNames :
        /\ pc = "idle"
        /\ ret' = [Return("get_model", get_model(model_name)) EXCEPT !.args = <<model_name>>]
        /\ ml_dict' = IF dict_get(ml_dict, model_name) = None
                      THEN Append(ml_dict, Entry(model_name, None, None, Inf, None))
                      ELSE ml_dict
        /\ UNCHANGED <<kwargs, score_type, forecast_period, time_interval, seasonal_period,
                       model_type, pc, frame, calls, fits_left, past, memo>>

GetModel ==
    \E model_name \in QueryNames :
        Accessor([Return("get_model", get_model(model_name)) EXCEPT !.args = <<model_name>>])

GetModelBuild ==
    \E model_name \in QueryNames :
        Accessor([Return("get_model_build", get_model_build(model_name))
                     EXCEPT !.args = <<model_name>>])

\* the arguments predict is called with: model, X_exogen, forecast_period, simple
PredictArgs ==
    {<<m, None, None, TRUE>> : m \in {S_best} \cup QueryNames}
    \cup {<<m, Some("X"), Some(h), FALSE>> : m \in {upper(S_best), S_ARIMA}, h \in 1..MaxHorizon}

Predict ==
    \E a \in PredictArgs : Accessor([predict(a[1], a[2], a[3], a[4]) EXCEPT !.args = a])

\* names and rmses of get_leaderboard: one row per key, in the order of the keys
leaderboard_rows(d) == [i \in 1..Len(d) |-> [name |-> d[i].name, score |-> d[i].score]]

RowOrders(n) == {p \in [1..n -> 1..n] : \A i, j \in 1..n : p[i] = p[j] => i = j}

\* a variant of the sort that never reverses the order
sort_values_ascending(rows, ascending) ==
    { [i \in 1..Len(rows) |-> rows[p[i]]] :
        p \in {q \in RowOrders(Len(rows)) :
                  \A i, j \in 1..Len(rows) : i < j => rows[q[i]].score <= rows[q[j]].score} }

\* results.sort_values(self.score_type, ascending=ascending): every order of the
\* rows that is sorted by score; the default sort kind fixes no order among rows
\* of equal score
sort_values(rows, ascending) ==
    { [i \in 1..Len(rows) |-> rows[p[i]]] :
        p \in {q \in RowOrders(Len(rows)) :
                  \A i, j \in 1..Len(rows) :
                      i < j => IF ascending
                               THEN rows[q[i]].score <= rows[q[j]].score
                               ELSE rows[q[i]].score >= rows[q[j]].score} }

get_leaderboard(ascending) == sort_values(leaderboard_rows(ml_dict), ascending)

GetLeaderboard ==
    \E ascending \in BOOLEAN : \E results \in get_leaderboard(ascending) :
        Accessor([Return("get_leaderboard", results) EXCEPT !.args = <<ascending>>])

(***************************************************************************)
(* The constructor (lines 153-166) and the specifications                  *)
(***************************************************************************)
\* a variant whose seasonal_period parameter defaults to None
init_seasonal_period_unset(arg) == IF arg = None THEN None ELSE arg[1]

\* line 70, seasonal_period: int = 12, and line 159: the parameter is the
\* argument where one is passed (arg = Some(value), the value None included) and
\* 12 where it is left out (arg = None)
init_seasonal_period(arg) == IF arg = None THEN Some(12) ELSE arg[1]

\* __init__ with its arguments drawn from the given sets, seasonal_period being
\* passed or left out as PeriodArgs says
ConstructWith(ScoreTypes, Horizons, Intervals, PeriodArgs, ModelTypes, Fits) ==
    /\ kwargs \in [seasonal_period : PeriodArgs]
    /\ ml_dict = << >>
    /\ score_type \in ScoreTypes
    /\ forecast_period \in Horizons
    /\ time_interval \in Intervals
    /\ seasonal_period = init_seasonal_period(kwargs.seasonal_period)
    /\ model_type \in ModelTypes
    /\ pc = "idle"
    /\ frame = NoFrame
    /\ calls = << >>
    /\ ret = Return("__init__", "None")
    /\ fits_left \in Fits
    /\ past = << >>
    /\ memo = {}

\* __init__ with its arguments drawn from the given sets, seasonal_period passed
Construct(ScoreTypes, Horizons, Intervals, Periods, ModelTypes, Fits) ==
    ConstructWith(ScoreTypes, Horizons, Intervals, {Some(p) : p \in Periods}, ModelTypes, Fits)

\* fit, and the accessor fit itself calls
NextFit ==
    \/ Fit_Load
    \/ Fit_InferFrequency
    \/ Fit_Normalize
    \/ Fit_Prophet
    \/ Fit_PyFlux
    \/ Fit_ARIMA
    \/ Fit_SARIMAX
    \/ Fit_VAR
    \/ Fit_ML
    \/ Fit_Select
    \/ Fit_Return
    \/ GetBestModelName

Next ==
    \/ NextFit
    \/ GetBestModel
    \/ GetBestModelBuild
    \/ GetModel
    \/ GetModelBuild
    \/ Predict
    \/ GetLeaderboard

\* Model-type lists of up to four families, and the list of all six
ModelTypeInputs ==
    { <<S_stats>>, <<upper(S_stats)>>, <<S_ARIMA>>, <<lower(S_ARIMA)>>,
      <<S_prophet>>, <<upper(S_prophet)>>, <<S_pyflux>>, <<S_SARIMAX>>, <<S_VAR>>,
      <<S_ML>>, <<S_ml>>, <<S_VAR, S_ML>>, <<S_prophet, S_ML>>, <<S_pyflux, S_ARIMA, S_ml>>,
      << >>, <<S_FB_Prophet>>, <<S_ARIMA, S_FB_Prophet>> }
BestInputs == { <<S_best>>, <<S_ARIMA, upper(S_best)>> }

\* The accessor specification: the lists of up to three families
AccessorInputs == ModelTypeInputs \ { <<S_stats>>, <<upper(S_stats)>> }

Init ==
    Construct({"rmse", "normalized_rmse"}, {MaxHorizon}, {Some(<<"M">>)},
              {Some(12)}, AccessorInputs, {1})

\* The fit specification: fit over every list, the one of all six families included
InitFit ==
    \/ Construct({"rmse", "normalized_rmse"}, {MaxHorizon}, {Some(<<"M">>)},
                 {Some(12)}, ModelTypeInputs, {1})
    \/ Construct({"rmse"}, {MaxHorizon}, {Some(<<"M">>)}, {Some(12)}, BestInputs, {1})

SpecFit == InitFit /\ [][NextFit]_vars

Spec == Init /\ [][Next]_vars

(***************************************************************************)
(* The frequency specification: every interval string and every first gap, *)
(* one family attempted                                                    *)
(***************************************************************************)
Range(l) == {l[i] : i \in 1..Len(l)}

\* the interval strings the constructor documents, each with its category
Documented ==
    { <<S_months, S_months>>, <<S_months, <<"m", "o", "n", "t", "h">>>>, <<S_months, <<"m">>>>,
      <<S_days, S_days>>, <<S_days, <<"d", "a", "i", "l", "y">>>>, <<S_days, <<"d">>>>,
      <<S_weeks, S_weeks>>, <<S_weeks, <<"w", "e", "e", "k", "l", "y">>>>, <<S_weeks, <<"w">>>>,
      <<S_qtr, S_qtr>>, <<S_qtr, <<"q", "u", "a", "r", "t", "e", "r">>>>, <<S_qtr, <<"q">>>>,
      <<S_years, S_years>>, <<S_years, <<"y", "e", "a", "r">>>>,
      <<S_years, <<"a", "n", "n", "u", "a", "l">>>>, <<S_years, <<"y">>>>, <<S_years, <<"a">>>>,
      <<S_hours, S_hours>>, <<S_hours, <<"h", "o", "u", "r", "l", "y">>>>, <<S_hours, <<"h">>>>,
      <<S_minutes, S_minutes>>, <<S_minutes, <<"m", "i", "n", "u", "t", "e">>>>,
      <<S_minutes, <<"m", "i", "n">>>>, <<S_minutes, <<"n">>>>,
      <<S_seconds, S_seconds>>, <<S_seconds, <<"s", "e", "c", "o", "n", "d">>>>,
      <<S_seconds, <<"s", "e", "c">>>>, <<S_seconds, <<"s">>>> }

Synonyms == {p[2] : p \in Documented}

capitalize(s) == <<upper_char(s[1])>> \o Tail(s)
padded(s) == <<" ", "\t">> \o s \o <<"\n", " ">>

\* strings outside the synonym table
Unrecognized ==
    { << >>, <<" ">>, <<"m", "o">>, <<"m", "o", "n", "t", "h", " ", "s">>,
      <<"m", "o", "n", "t", "h", "s", "s">>, <<"b">>,
      <<"f", "o", "r", "t", "n", "i", "g", "h", "t">>, <<"w", "k">>,
      <<"d", "a", "y">>, <<"m", "_">> }

\* s as a caller may write it: other casings, surrounding whitespace
Variants(s) == {s, upper(s), capitalize(s), padded(upper(s))}

IntervalInputs == UNION {Variants(s) : s \in Synonyms} \cup Unrecognized

InitFreq ==
    Construct({"rmse"}, {MaxHorizon}, {None} \cup {Some(s) : s \in IntervalInputs},
              {None, Some(7)}, {<<S_ARIMA>>}, {1})

SpecFreq == InitFreq /\ [][NextFit]_vars

(***************************************************************************)
(* The seasonal specification: the SARIMAX family on every documented      *)
(* interval name, or none, with seasonal_period left out, None or 7        *)
(***************************************************************************)
InitSeasonal ==
    ConstructWith({"rmse"}, {MaxHorizon}, {None} \cup {Some(s) : s \in Synonyms},
                  {None, Some(None), Some(Some(7))}, {<<S_SARIMAX>>, <<S_ARIMA, S_SARIMAX>>}, {1})

SpecSeasonal == InitSeasonal /\ [][NextFit]_vars

(***************************************************************************)
(* The refit specification: MaxFits fit calls on one orchestrator, on a    *)
(* few inputs, by adapters that are functions of their arguments           *)
(***************************************************************************)
\* a file that loads into a table with the given first gap and exogenous columns
Table(gap, preds) == Input("path", "str", "table", Some(gap), preds)

RefitInputs ==
    { Table(<<1, 0>>, 1), Table(<<7, 0>>, 0), Table(<<0, 0>>, 1), Table(<<3, 0>>, 1),
      Input("path", "str", "error_marker", Some(<<1, 0>>), 1),
      Input("DataFrame", "str", "raises", Some(<<1, 0>>), 1) }

Refit_Load == Load(RefitInputs)

NextRefit ==
    \/ Refit_Load
    \/ Fit_InferFrequency
    \/ Fit_Normalize
    \/ Fit_Prophet
    \/ Fit_PyFlux
    \/ Fit_ARIMA
    \/ Fit_SARIMAX
    \/ Fit_VAR
    \/ Fit_ML
    \/ Fit_Select
    \/ Fit_Return
    \/ GetBestModelName
    \/ GetModel
    \/ GetLeaderboard

InitRefit ==
    Construct({"rmse"}, {MaxHorizon}, {None, Some(<<"m", "i", "n">>)}, {None},
              {<<S_ARIMA>>, <<S_ml>>}, {MaxFits})

SpecRefit == InitRefit /\ [][NextRefit]_vars

(***************************************************************************)
(* The table specification: fit on tables whose rows are spelled out, with *)
(* one exogenous column, for the two families that read it                 *)
(***************************************************************************)
Values == {NaN, 0, 1}
Rows == [y : Values, x : Values]
Tables == UNION {[1..n -> Rows] : n \in 1..MaxRows}

TableInputs ==
    {[Input("DataFrame", "str", "table", None, 1) EXCEPT !.rows = Some(rows)] :
        rows \in Tables}

Table_Load == Load(TableInputs)

NextTable ==
    \/ Table_Load
    \/ Fit_InferFrequency
    \/ Fit_Normalize
    \/ Fit_Prophet
    \/ Fit_PyFlux
    \/ Fit_ARIMA
    \/ Fit_SARIMAX
    \/ Fit_VAR
    \/ Fit_ML
    \/ Fit_Select
    \/ Fit_Return
    \/ GetBestModelName

InitTable ==
    Construct({"rmse"}, 1..MaxHorizon, {Some(<<"M">>)}, {Some(12)}, {<<S_VAR, S_ML>>}, {1})

SpecTable == InitTable /\ [][NextTable]_vars

(***************************************************************************)
(* Properties                                                              *)
(***************************************************************************)
FamilyOrder == <<S_FB_Prophet, S_PyFlux, S_ARIMA, S_SARIMAX, S_VAR, S_ML>>
Families == Range(FamilyOrder)
Rank(name) == CHOOSE i \in 1..Len(FamilyOrder) : FamilyOrder[i] = name
Keys == Range(dict_keys(ml_dict))
ScoreOf(name) == dict_get(ml_dict, name)[1].score

\* the model-type list names w, whatever the casing
Asks(w) == \E i \in 1..Len(model_type) : lower(model_type[i]) = lower(w)

SelectedFamilies ==
    {f \in Families :
        \/ f = S_FB_Prophet /\ (Asks(S_prophet) \/ Asks(S_best))
        \/ f = S_PyFlux /\ (Asks(S_pyflux) \/ Asks(S_stats) \/ Asks(S_best))
        \/ f = S_ARIMA /\ (Asks(S_ARIMA) \/ Asks(S_stats) \/ Asks(S_best))
        \/ f = S_SARIMAX /\ (Asks(S_SARIMAX) \/ Asks(S_stats) \/ Asks(S_best))
        \/ f = S_VAR /\ (Asks(S_VAR) \/ Asks(S_stats) \/ Asks(S_best))
        \/ f = S_ML /\ (Asks(S_ml) \/ Asks(S_best))}

\* the running fit call is past its last attempt, or fit has returned self
AttemptsDone == pc \in {"select", "report"} \/ (pc = "idle" /\ ret = Return("fit", "self"))

\* C1: once fit is past the attempts, the registry keys are exactly the families
\* the model-type list selects (prophet/best, name/stats/best, ml/best, any casing):
\* ['best'] gives all six, ['ARIMA'] only ARIMA, ['stats'] the four statistical ones.
C1_RegistryKeysAreSelected ==
    AttemptsDone =>
        /\ LET selected == SelectedFamilies IN
              Keys = selected /\ Len(ml_dict) = Cardinality(selected)
        /\ model_type = <<S_best>> => Keys = Families
        /\ model_type = <<S_ARIMA>> => Keys = {S_ARIMA}
        /\ model_type = <<S_stats>> => Keys = {S_PyFlux, S_ARIMA, S_SARIMAX, S_VAR}

C1_Witness ==
    /\ pc = "idle"
    /\ ret = Return("fit", "self")
    /\ model_type = <<upper(S_stats)>>
    /\ Keys = {S_PyFlux, S_ARIMA, S_SARIMAX, S_VAR}

\* name has the least score of the registry and, among the entries with that
\* score, comes first in the attempt order
IsBest(name) ==
    /\ name \in Keys
    /\ \A i \in 1..Len(ml_dict) :
          /\ ScoreOf(name) <= ml_dict[i].score
          /\ ml_dict[i].score = ScoreOf(name) => Rank(name) <= Rank(ml_dict[i].name)
    /\ (\E i \in 1..Len(ml_dict) : ml_dict[i].score < Inf) => ScoreOf(name) < Inf

\* C2: on a non-empty registry get_best_model_name returns a name of least score,
\* the first of them in the attempt order on a tie, and never an entry of infinite
\* score while some entry has a finite one.
C2_BestIsFirstMinimum ==
    /\ (ret.op = "get_best_model_name" /\ ml_dict # << >>) =>
          (ret.kind = "return" /\ IsBest(ret.val))
    /\ pc = "report" => IsBest(frame.best_model_name[1])

C2_Witness ==
    /\ ret.op = "get_best_model_name"
    /\ ret.kind = "return"
    /\ ret.val # ml_dict[1].name
    /\ \E i \in 1..Len(ml_dict) :
          ml_dict[i].name # ret.val /\ ml_dict[i].score = ScoreOf(ret.val)
    /\ \E i \in 1..Len(ml_dict) : ml_dict[i].score = Inf

NoModelAvailable == \A i \in 1..Len(ml_dict) : ml_dict[i].score = Inf

AsksForBest ==
    \/ ret.op \in {"get_best_model_name", "get_best_model", "get_best_model_build"}
    \/ ret.op = "predict" /\ lower(ret.args[1]) = S_best

\* C3: when the registry is empty or all its scores are infinite, the calls that
\* ask for the best model (get_best_model_name, get_best_model,
\* get_best_model_build, predict('best')) fail and return nothing.
C3_NoModelAvailableFails ==
    (AsksForBest /\ NoModelAvailable) => ret.kind = "raise"

AdapterOf(f) ==
    IF f = S_FB_Prophet THEN "BuildProphet"
    ELSE IF f = S_PyFlux THEN "build_pyflux_model"
    ELSE IF f = S_ARIMA THEN "BuildArima"
    ELSE IF f = S_SARIMAX THEN "BuildSarimax"
    ELSE IF f = S_VAR THEN "BuildVAR"
    ELSE "BuildML"

\* the adapter of family f was constructed (for PyFlux: its build function called)
Attempted(f) ==
    \E i \in 1..Len(calls) :
        calls[i].adapter = AdapterOf(f) /\ calls[i].method \in {"__init__", "call"}

\* C4: whichever adapters raise in construction or fit, every selected family is
\* still attempted (VAR and ML only when there are exogenous columns), fit ends by
\* returning self and never by an exception, and the best name has a finite score
\* whenever some family got one.
C4_FailuresAreIsolated ==
    /\ pc = "select" =>
          \A f \in SelectedFamilies :
              Attempted(f) \/ (f \in {S_VAR, S_ML} /\ frame.preds = 0)
    /\ pc = "report" =>
          ((\E i \in 1..Len(ml_dict) : ml_dict[i].score < Inf)
              => ScoreOf(frame.best_model_name[1]) < Inf)
    /\ (pc = "idle" /\ ret.op = "fit" /\ calls # << >>) => ret = Return("fit", "self")

C4_Witness ==
    /\ pc = "idle"
    /\ ret = Return("fit", "self")
    /\ \E i, j \in 1..Len(ml_dict) :
          /\ i < j
          /\ ml_dict[i].name = S_ARIMA
          /\ ml_dict[i].score = Inf
          /\ ml_dict[i].model_build = None
          /\ Attempted(S_ARIMA)
          /\ ml_dict[j].score < Inf

Sentinel(e) ==
    e.model = None /\ e.forecast = None /\ e.score = Inf /\ e.model_build = None

\* C5: with no exogenous column, VAR and ML are neither constructed nor fit, their
\* entries hold the sentinel values, and the best name is never VAR or ML.
C5_NoExogenousSkipsVarAndML ==
    (pc \in {"select", "report"} /\ frame.preds = 0) =>
        /\ \A f \in {S_VAR, S_ML} \cap Keys :
              ~Attempted(f) /\ Sentinel(dict_get(ml_dict, f)[1])
        /\ frame.best_model_name \notin {Some(S_VAR), Some(S_ML)}


Categories ==
    {S_months, S_days, S_weeks, S_qtr, S_years, S_hours, S_minutes, S_seconds}

\* fit is about to infer the interval from the first index gap
InferStep == pc = "infer" /\ time_interval = None
GapDays == frame.gap[1][1]
GapSecs == frame.gap[1][2]

InBand(d) == d = 1 \/ d = 7 \/ d >= 28
Band(d) ==
    IF d = 1 THEN S_days
    ELSE IF d = 7 THEN S_weeks
    ELSE IF d <= 88 THEN S_months
    ELSE IF d <= 177 THEN S_qtr
    ELSE IF d <= 359 THEN S_qtr
    ELSE S_years

\* C6: with no interval configured and a first gap of d whole days, d >= 1, fit goes
\* on with the interval daily for 1, weekly for 7, monthly for 28..88, quarterly for
\* 89..177 and 178..359, yearly from 360, and normalisation keeps that interval.
C6_WholeDayBands ==
    [][ /\ (InferStep /\ GapSecs = 0 /\ GapDays >= 1 /\ InBand(GapDays)) =>
              (pc' = "normalize" /\ time_interval' = Some(Band(GapDays)))
        /\ (pc = "normalize" /\ frame.inferred) => time_interval' = time_interval
      ]_vars

C6_Witness ==
    /\ pc = "prophet"
    /\ frame.inferred
    /\ frame.gap = Some(<<30, 0>>)
    /\ time_interval = Some(S_months)

\* C7: with no interval configured and a first gap shorter than a day, fit goes on
\* to the attempts with the interval hourly when the gap is at least an hour and
\* minute-level when it is less.
C7_SubDayGaps ==
    [][ (InferStep /\ GapDays = 0 /\ GapSecs > 0) =>
            /\ pc' = "normalize"
            /\ time_interval' = Some(IF GapSecs >= 3600 THEN S_hours ELSE S_minutes)
      ]_vars

Unrecognised(d, secs) ==
    \/ secs = 0 /\ (d \in 2..6 \/ d \in 8..27)
    \/ secs # 0 /\ d >= 1

\* C8: with no interval configured and a first gap in no band (2..6 or 8..27 whole
\* days, or days together with a time of day), fit returns None without raising and
\* no adapter is constructed or fit.
C8_UnknownFrequency ==
    [][ (InferStep /\ Unrecognised(GapDays, GapSecs)) =>
            /\ pc' = "idle"
            /\ ret' = Return("fit", "None")
            /\ calls' = << >>
      ]_vars

\* C9: normalisation of a caller's interval string gives one of the 8 categories:
\* a documented synonym, in any casing and with surrounding whitespace, gives its
\* own category, and any other string gives monthly.
C9_NormalisationTable ==
    [][ pc = "normalize" =>
            /\ time_interval' # None
            /\ time_interval'[1] \in Categories
            /\ ~frame.inferred =>
                  IF \E p \in Documented : time_interval[1] \in Variants(p[2])
                  THEN \A p \in Documented :
                          time_interval[1] \in Variants(p[2]) => time_interval' = Some(p[1])
                  ELSE time_interval' = Some(S_months)
      ]_vars

C9_Witness ==
    /\ pc = "prophet"
    /\ ~frame.inferred
    /\ time_interval = Some(S_weeks)

PeriodTable(c) ==
    IF c = S_months THEN 12
    ELSE IF c = S_days THEN 30
    ELSE IF c = S_weeks THEN 52
    ELSE IF c = S_qtr THEN 4
    ELSE IF c = S_years THEN 1
    ELSE IF c = S_hours THEN 24
    ELSE 60

\* C10: a seasonal period that is None when fit normalises becomes the table value
\* of the category (monthly 12, daily 30, weekly 52, quarterly 4, yearly 1, hourly 24,
\* minute 60, second 60); an integer one is left as it is.
C10_SeasonalPeriodTable ==
    [][ pc = "normalize" =>
            IF seasonal_period = None
            THEN seasonal_period' = Some(PeriodTable(time_interval'[1]))
            ELSE seasonal_period' = seasonal_period
      ]_vars

C10_Witness ==
    /\ pc = "prophet"
    /\ time_interval = Some(S_weeks)
    /\ seasonal_period = Some(52)

\* some family got a finite score
SomeFinite == \E i \in 1..Len(ml_dict) : ml_dict[i].score < Inf

\* the last call was predict, it invoked predict once, on the adapter of entry e
\* and on no other, with the caller's X_exogen, forecast_period and simple, and it
\* returned what that adapter returned
Dispatched(e) ==
    /\ e.model_build # None
    /\ ret.kind = "return"
    /\ Len(ret.invoked) = 1
    /\ ret.invoked[1] = [adapter |-> e.model_build[1], X_exogen |-> ret.args[2],
                         forecast_period |-> ret.args[3], simple |-> ret.args[4]]
    /\ ret.val = Some(adapter_predict(ret.args[2], ret.args[3], ret.args[4]))

\* C11: predict('best'), in any casing, on a registry with a finite score invokes
\* predict once on the adapter of the best entry, and predict(name) for a key whose
\* entry holds an adapter invokes predict once on that adapter; the three arguments
\* are forwarded and the adapter's result is returned, as they are.
C11_PredictDispatch ==
    ret.op = "predict" =>
        /\ (lower(ret.args[1]) = S_best /\ SomeFinite) =>
              \E name \in Keys : IsBest(name) /\ Dispatched(dict_get(ml_dict, name)[1])
        /\ (lower(ret.args[1]) # S_best /\ ret.args[1] \in Keys
                /\ dict_get(ml_dict, ret.args[1])[1].model_build # None) =>
              Dispatched(dict_get(ml_dict, ret.args[1])[1])

\* the step is a call of an accessor: no fit call begins or goes on
AccessorStep == pc = "idle" /\ pc' = "idle" /\ fits_left' = fits_left

\* C12: get_model(name), get_model_build(name) and predict(name) for a name that is
\* not a key return None, before a fit and after a fit that succeeded or failed, and
\* every accessor call leaves the registry and the configuration as they are.
C12_UnknownNameReturnsNone ==
    [][ AccessorStep =>
            /\ ml_dict' = ml_dict
            /\ <<score_type, forecast_period, time_interval, seasonal_period, model_type>>'
                 = <<score_type, forecast_period, time_interval, seasonal_period, model_type>>
            /\ (/\ ret'.op \in {"get_model", "get_model_build", "predict"}
                /\ ret'.args[1] \notin Keys
                /\ lower(ret'.args[1]) # S_best)
                  => ret'.kind = "return" /\ ret'.val = None
      ]_vars

C12_Witness ==
    /\ ret.op = "predict"
    /\ ret.args[1] = S_prophet
    /\ ret = [Return("predict", None) EXCEPT !.args = ret.args]
    /\ Keys = {S_FB_Prophet}
    /\ ScoreOf(S_FB_Prophet) < Inf
    /\ dict_get(ml_dict, S_FB_Prophet)[1].model_build # None

\* C13: after a fit in which some family got a finite score,
\* predict('best', forecast_period=H) returns a sequence of H values, for each H of
\* 1..MaxHorizon and whichever family is the best, given adapters whose predict
\* returns as many values as the horizon it is given.
C13_PredictBestLength ==
    (/\ ret.op = "predict"
     /\ lower(ret.args[1]) = S_best
     /\ ret.args[3] # None
     /\ SomeFinite)
        => /\ ret.kind = "return"
           /\ ret.val # None
           /\ Len(ret.val[1]) = ret.args[3][1]

\* the registry as fit call k of the history left it: the one call k + 1 began
\* with, or the present one for the last call
After(k) == IF k < Len(past) THEN past[k + 1].ml_dict ELSE ml_dict

\* two registries have the same keys, the same score under each key and the same
\* best name
SameScores(d1, d2) ==
    /\ Range(dict_keys(d1)) = Range(dict_keys(d2))
    /\ Len(d1) = Len(d2)
    /\ \A i \in 1..Len(d1) : dict_get(d2, d1[i].name)[1].score = d1[i].score
    /\ d1 # << >> => best_model_name_of(d1) = best_model_name_of(d2)

\* C14: when a fit call is given the input of the fit call before it, on the same
\* orchestrator and with adapters that are functions of their arguments, it leaves a
\* registry with the keys, the scores and the best name the call before left, also
\* when the interval and the seasonal period were unset at construction.
C14_RefitIsIdempotent ==
    pc = "idle" =>
        \A k \in 2..Len(past) :
            past[k].input = past[k - 1].input => SameScores(After(k - 1), After(k))

C14_Witness ==
    /\ pc = "idle"
    /\ Len(past) >= 2
    /\ past[Len(past)].input = past[Len(past) - 1].input
    /\ past[1].time_interval = None
    /\ past[1].seasonal_period = None
    /\ time_interval = Some(S_weeks)
    /\ ret = Return("fit", "self")
    /\ past[Len(past)].stored = {S_ARIMA}
    /\ ScoreOf(S_ARIMA) < Inf

\* the inputs fit cannot load into a table: a source that is no str and no table,
\* an empty str, a loader that returns its error marker or raises
Unloadable(traindata, loaded) ==
    \/ traindata \in {"other", "empty_str"}
    \/ loaded \in {"error_marker", "raises"}

\* C15: on an input that cannot be loaded (with the time column given by name or
\* list) fit returns None, raises nothing, and constructs or fits no adapter.
C15_LoadFailureReturnsNone ==
    (/\ pc = "idle"
     /\ ret.op = "fit"
     /\ ret.args # << >>
     /\ ret.args[2] # "int"
     /\ Unloadable(ret.args[1], ret.args[3]))
        => ret.kind = "return" /\ ret.val = "None" /\ calls = << >>

\* the rows are the entries of the registry, each once, with its name and score
RowsOfRegistry(rows) ==
    /\ Len(rows) = Len(ml_dict)
    /\ \A i \in 1..Len(ml_dict) :
          Cardinality({j \in 1..Len(rows) :
                          rows[j] = [name |-> ml_dict[i].name, score |-> ml_dict[i].score]}) = 1

\* C16: get_leaderboard(ascending) returns one row per registry entry, with the
\* entry's name and score, in non-decreasing order of score when ascending and in
\* non-increasing order otherwise, and the first ascending row has the score of the
\* entry get_best_model_name names.
C16_LeaderboardIsRanked ==
    ret.op = "get_leaderboard" =>
        /\ ret.kind = "return"
        /\ RowsOfRegistry(ret.val)
        /\ \A i \in 1..(Len(ret.val) - 1) :
              IF ret.args[1]
              THEN ret.val[i].score <= ret.val[i + 1].score
              ELSE ret.val[i].score >= ret.val[i + 1].score
        /\ (ret.args[1] /\ ret.val # << >>) =>
              \E name \in Keys : IsBest(name) /\ ScoreOf(name) = ret.val[1].score

C16_Witness ==
    /\ ret.op = "get_leaderboard"
    /\ ret.args = <<TRUE>>
    /\ Len(ret.val) = 3
    /\ ret.val[1].name = ml_dict[2].name
    /\ ret.val[2].name = ml_dict[1].name
    /\ ret.val[1].score < ret.val[2].score
    /\ ret.val[2].score < Inf
    /\ ret.val[3].score = Inf

\* the input of the running fit call, for a caller that fits repeatedly
ThisInput == past[Len(past)].input

\* what an orchestrator constructed with interval and seasonal period unset derives
\* from the first gap of a table
FreshInference(gap) == infer_frequency(gap[1], gap[2])
FreshInterval(gap) == normalize_time_interval(FreshInference(gap).time_interval[1])

\* C17: on an orchestrator constructed with the interval and the seasonal period
\* unset, each fit call goes on with the interval and the seasonal period that a
\* newly constructed orchestrator derives from the input of that call, whatever the
\* calls before it were given.
C17_NoDerivedStatePersists ==
    [][ (/\ pc = "normalize"
         /\ past # << >>
         /\ past[1].time_interval = None
         /\ past[1].seasonal_period = None)
            => /\ FreshInference(ThisInput.gap[1]).end = "ok"
               /\ time_interval' = Some(FreshInterval(ThisInput.gap[1]))
               /\ seasonal_period' =
                      impute_seasonal_period(None, FreshInterval(ThisInput.gap[1]))
      ]_vars

\* C18: once a fit call has returned or raised, the registry holds only entries that
\* call stored, and get_best_model_name, get_model and get_leaderboard give only
\* names and handles of such entries.
C18_RegistryIsOfLastFit ==
    (pc = "idle" /\ past # << >>) =>
        /\ Keys \subseteq past[Len(past)].stored
        /\ (ret.op = "get_best_model_name" /\ ret.kind = "return")
              => ret.val \in past[Len(past)].stored
        /\ (ret.op = "get_model" /\ ret.val # None)
              => ret.args[1] \in past[Len(past)].stored
        /\ ret.op = "get_leaderboard"
              => \A i \in 1..Len(ret.val) : ret.val[i].name \in past[Len(past)].stored

\* C19: once fit is past the attempts, every entry with a finite score holds its
\* adapter, and get_best_model_build returns an adapter when the best score is
\* finite.
C19_FiniteScoreHoldsAdapter ==
    /\ AttemptsDone =>
          \A i \in 1..Len(ml_dict) : ml_dict[i].score < Inf => ml_dict[i].model_build # None
    /\ (ret.op = "get_best_model_build" /\ SomeFinite)
          => ret.kind = "return" /\ ret.val # None

\* C20: once fit is past the attempts, an entry has an infinite score exactly when
\* it has no model handle, and an entry with an infinite score has no forecast.
C20_FailedAttemptIsSentinel ==
    AttemptsDone =>
        \A i \in 1..Len(ml_dict) :
            /\ ml_dict[i].score = Inf <=> ml_dict[i].model = None
            /\ ml_dict[i].score = Inf => ml_dict[i].forecast = None

\* the places of fit in the order the code passes them, each with its number
PhaseOrder == <<"idle", "infer", "normalize", "prophet", "pyflux", "arima", "sarimax",
                "var", "ml", "select", "report">>
Phase == [p \in Range(PhaseOrder) |-> CHOOSE i \in 1..Len(PhaseOrder) : PhaseOrder[i] = p]

\* the place where each family is attempted, by registry name and by adapter
FamilyPhase == [f \in Families |-> Phase["prophet"] + Rank(f) - 1]
AdapterPhase == [a \in {AdapterOf(f) : f \in Families} |->
                    FamilyPhase[CHOOSE f \in Families : AdapterOf(f) = a]]

\* the call constructs an adapter (PyFlux: calls its function)
IsConstruction(c) == c.method \in {"__init__", "call"}

\* the constructions of adapters, in their order
Constructions(cs) == SelectSeq(cs, IsConstruction)

Increasing(ns) == \A i \in 1..(Len(ns) - 1) : ns[i] < ns[i + 1]

\* C21: fit passes loading, frequency inference and normalisation, the attempts of
\* FB_Prophet, PyFlux, ARIMA, SARIMAX, VAR, ML and the selection in this order and
\* returns: no adapter is constructed or fit before the interval and the seasonal
\* period are set, each family is attempted at most once, at its place, and its
\* entry is in the registry when the next family starts, the best name is taken
\* after the last attempt, and the registry is not written from the selection on.
C21_PhasesInOrder ==
    [][ /\ pc' = "idle" \/ Phase[pc'] = Phase[pc] + 1
        /\ pc' = "idle" => pc \in {"idle", "infer", "select", "report"}
        /\ pc' \in {"infer", "normalize", "prophet"} => calls' = << >>
        /\ pc' = "prophet" =>
              /\ time_interval' # None /\ time_interval'[1] \in Categories
              /\ seasonal_period' # None
              /\ ml_dict' = << >>
        /\ Phase[pc] >= Phase["prophet"] =>
              <<time_interval, seasonal_period>>' = <<time_interval, seasonal_period>>
        /\ \A i \in 1..Len(calls') :
              IsConstruction(calls'[i]) =>
                  /\ \A j \in 1..(i - 1) :
                        IsConstruction(calls'[j]) =>
                            AdapterPhase[calls'[j].adapter] < AdapterPhase[calls'[i].adapter]
                  /\ pc' # "idle" => AdapterPhase[calls'[i].adapter] < Phase[pc']
                  /\ \E j \in 1..Len(ml_dict') :
                        FamilyPhase[ml_dict'[j].name] = AdapterPhase[calls'[i].adapter]
        /\ Increasing([i \in 1..Len(ml_dict') |-> FamilyPhase[ml_dict'[i].name]])
        /\ (pc' # "idle" /\ pc # "idle") =>
              \A i \in 1..Len(ml_dict') : FamilyPhase[ml_dict'[i].name] < Phase[pc']
        /\ frame'.best_model_name # None => pc' = "report"
        /\ pc \in {"select", "report"} => ml_dict' = ml_dict
      ]_vars

C21_Witness ==
    /\ pc = "report"
    /\ dict_keys(ml_dict) = FamilyOrder
    /\ Len(Constructions(calls)) = 6
    /\ frame.best_model_name = Some(S_SARIMAX)

\* the calls the step adds to the calls of the running fit
NewCalls == SubSeq(calls', Len(calls) + 1, Len(calls'))

\* shifted holds, under its timestamp t and in the order of the timestamps, every
\* row whose target at t and whose exogenous values at t - 1 are both present in
\* the loaded rows, with exactly these values, and no other row
ShiftedByOne(rows, shifted) ==
    /\ \A i \in 1..Len(shifted) :
          /\ shifted[i].t \in 2..Len(rows)
          /\ shifted[i].y = rows[shifted[i].t].y
          /\ shifted[i].x = rows[shifted[i].t - 1].x
          /\ shifted[i].y # NaN /\ shifted[i].x # NaN
    /\ \A t \in 2..Len(rows) :
          (rows[t].y # NaN /\ rows[t - 1].x # NaN) => \E i \in 1..Len(shifted) : shifted[i].t = t
    /\ \A i \in 1..(Len(shifted) - 1) : shifted[i].t < shifted[i + 1].t

\* C22: the VAR adapter's fit gets the rows with the target of the same timestamp
\* and the exogenous values of the timestamp before, without the rows that have a
\* missing value (the first row among them); the loaded table is as it was after
\* the shift; the ML adapter's fit gets the loaded table and the lag
\* forecast_period - 1.
C22_VarShiftAndMlLag ==
    [][ /\ (pc = "var" /\ frame.ts_df # None) =>
              /\ frame'.ts_df = frame.ts_df
              /\ \A i \in 1..Len(NewCalls) :
                    NewCalls[i].method = "fit" =>
                        /\ NewCalls[i].arg # None
                        /\ ShiftedByOne(frame.ts_df[1], NewCalls[i].arg[1])
        /\ pc = "ml" =>
              \A i \in 1..Len(NewCalls) :
                  NewCalls[i].method = "fit" =>
                      /\ NewCalls[i].arg[1].lags = forecast_period - 1
                      /\ NewCalls[i].arg[1].ts_df = frame.ts_df
      ]_vars

C22_Witness ==
    /\ pc = "select"
    /\ Len(frame.ts_df[1]) = 3
    /\ frame.ts_df[1][2].x = NaN
    /\ \E i, j \in 1..Len(calls) :
          /\ calls[i] = Call("BuildVAR", "fit", Some(<<[t |-> 2, y |-> 0, x |-> 1]>>))
          /\ calls[j].adapter = "BuildML"
          /\ calls[j].method = "fit"
          /\ calls[j].arg[1].lags = MaxHorizon - 1

\* the orders in which n entries can be written
WriteOrders == [n \in 0..Len(FamilyOrder) |-> RowOrders(n)]

\* the registry that the writes of lines 413-416 (and their like) leave when the
\* entries of d are written in the order p, from the k-th write on
RECURSIVE Rewritten(_, _, _, _)
Rewritten(d, p, k, acc) ==
    IF k > Len(p) THEN acc
    ELSE Rewritten(d, p, k + 1, dict_set(acc, d[p[k]]))

\* the entry written k-th has the least score and no entry written before it has
FirstWrittenLeast(d, p, k) ==
    /\ \A j \in 1..Len(p) : d[p[j]].score >= d[p[k]].score
    /\ \A j \in 1..(k - 1) : d[p[j]].score > d[p[k]].score

UniqueLeast(d) ==
    \E i \in 1..Len(d) : \A j \in 1..Len(d) : j # i => d[j].score > d[i].score

C24_FitSelectsOrReturnsNone ==
    [][ /\ pc = "select" =>
              \/ ml_dict = << >> /\ pc' = "idle" /\ ret' = Return("fit", "None")
              \/ ml_dict # << >> /\ pc' = "report"
        /\ pc = "report" => (ml_dict # << >> /\ ret' = Return("fit", "self"))
      ]_vars

\* the last call was predict(name, ...) for a name other than 'best'
PredictedByName == pc = "idle" /\ ret.op = "predict" /\ lower(ret.args[1]) # S_best

\* C25: predict(name), for a registry name whose family was attempted and failed
\* (infinite score, no model), invokes no adapter's predict and returns None.
C25_PredictOfFailedFamilyIsNone ==
    (/\ PredictedByName
     /\ ret.args[1] \in Keys
     /\ Attempted(ret.args[1])
     /\ dict_get(ml_dict, ret.args[1])[1].score = Inf
     /\ dict_get(ml_dict, ret.args[1])[1].model = None)
        => (ret.invoked = << >> /\ ret = [Return("predict", None) EXCEPT !.args = ret.args])

\* the family that fit attempts for the model-type name n, None for other names
FamilyNamed(n) ==
    IF lower(n) = S_prophet THEN Some(S_FB_Prophet)
    ELSE IF lower(n) = S_pyflux THEN Some(S_PyFlux)
    ELSE IF lower(n) = lower(S_ARIMA) THEN Some(S_ARIMA)
    ELSE IF lower(n) = lower(S_SARIMAX) THEN Some(S_SARIMAX)
    ELSE IF lower(n) = lower(S_VAR) THEN Some(S_VAR)
    ELSE IF lower(n) = S_ml THEN Some(S_ML)
    ELSE None

\* C26: for a name that the model-type list accepts for a family, in any casing,
\* once that family has a finite score get_model(name) returns the model of the
\* family's entry, get_model_build(name) its adapter, and predict(name) invokes
\* that adapter.
C26_AcceptedNamesResolve ==
    (/\ pc = "idle"
     /\ ret.op \in {"get_model", "get_model_build", "predict"}
     /\ FamilyNamed(ret.args[1]) # None
     /\ FamilyNamed(ret.args[1])[1] \in Keys
     /\ ScoreOf(FamilyNamed(ret.args[1])[1]) < Inf)
        => LET e == dict_get(ml_dict, FamilyNamed(ret.args[1])[1])[1] IN
           /\ ret.kind = "return"
           /\ ret.op = "get_model" => ret.val = e.model
           /\ ret.op = "get_model_build" => ret.val = e.model_build
           /\ (ret.op = "predict" /\ e.model_build # None) =>
                  (Len(ret.invoked) = 1 /\ ret.invoked[1].adapter = e.model_build[1])

====
